---- MODULE Spec2Model ----
(***************************************************************************)
(* Model of the stream frame sorter of quic-go (frame_sorter.go): the gap  *)
(* list, the queue of received segments, Push / push / Pop and the helpers *)
(* findStartGap, findEndGap and deleteConsecutive.                         *)
(*                                                                         *)
(* The stream is the byte sequence 0, 1, 2, ...: the byte at offset k has  *)
(* the value k, so a payload cut at the wrong index is visible in the      *)
(* bytes that Pop hands out.  A done-callback is a positive integer (the   *)
(* number of the Push that carried it), the nil callback is 0.             *)
(***************************************************************************)
EXTENDS Integers, Sequences, FiniteSets, TLC

\* ---- bounds of the model -------------------------------------------------
\* segments pushed lie inside [0, StreamLen)
StreamLen == 6
\* number of Push calls in one behaviour of Spec
MaxPushes == 4
\* number of Push calls in one behaviour of SpecBytes
MaxBytePushes == 6
\* only the first MaxNilCallbacks Push calls of a behaviour may pass a nil
\* callback
MaxNilCallbacks == 1
\* bytesSent and the offsets passed to UpdateSendWindow stay at or below
\* MaxBytesSent
MaxBytesSent == 4
\* bytesRead stays at or below MaxBytesRead
MaxBytesRead == 6
\* the initial receiveWindowSize is at most MaxInitialWindow (and at least
\* 1), maxReceiveWindowSize at most twice MaxInitialWindow
MaxInitialWindow == 3
\* the clock stops at MaxClock ticks
MaxClock == 2
\* the smoothed RTT is at most MaxRTT ticks (0: unknown)
MaxRTT == 1

\* ---- constants of package protocol, scaled down --------------------------
\* protocol.MaxByteCount (1<<62 - 1 in the program): above every segment end
MaxByteCount == 10
\* protocol.MaxStreamFrameSorterGaps (1000 in the program)
MaxStreamFrameSorterGaps == 3
\* protocol.MinStreamFrameBufferSize (128 in the program)
MinStreamFrameBufferSize == 2
\* the nil func() / the nil *list.Element
Nil == 0

\* ---- types -----------------------------------------------------------------
byteInterval(s, e) == [Start |-> s, End |-> e]

frameSorterEntry(d, cb) == [Data |-> d, DoneCb |-> cb]

\* the payload of the stream segment [offset, offset+len)
StreamData(offset, len) == [i \in 1..len |-> offset + i - 1]

\* ---- Go slices and maps ------------------------------------------------------
\* data[a:] with the cut forgotten: the frame keeps the bytes in front of a
SliceFromNoCut(data, a) == data

\* data[a:]
SliceFrom(data, a) == SubSeq(data, a + 1, Len(data))

\* data[:b]
SliceTo(data, b) == SubSeq(data, 1, b)

\* delete(s.queue, pos)
MapDelete(q, pos) == [k \in (DOMAIN q) \ {pos} |-> q[k]]

\* s.queue[pos] = e
MapStore(q, pos, e) == [k \in (DOMAIN q) \cup {pos} |-> IF k = pos THEN e ELSE q[k]]

\* invoking cb appends it to the calls made so far; the nil check guards it
Fire(fired, cb) == IF cb # Nil THEN Append(fired, cb) ELSE fired

\* ---- the gap list -------------------------------------------------------------
\* A *list.Element is the index of the element in the list as it was when
\* push started; rm is the set of elements removed so far and ins the
\* element inserted so far (after = Nil: none).  ListOf is the list that
\* results.
RECURSIVE ListFrom(_, _, _, _)
ListFrom(vals, rm, ins, i) ==
    IF i > Len(vals) THEN << >>
    ELSE (IF i \in rm THEN << >> ELSE << vals[i] >>)
         \o (IF ins.after = i THEN << ins.val >> ELSE << >>)
         \o ListFrom(vals, rm, ins, i + 1)

ListOf(vals, rm, ins) == ListFrom(vals, rm, ins, 1)

NoInsert == [after |-> Nil, val |-> byteInterval(0, 0)]

\* ---- findStartGap ----------------------------------------------------------------
RECURSIVE findStartGapFrom(_, _, _)
findStartGapFrom(gaps, gap, offset) ==
    IF gap > Len(gaps) THEN [gap |-> Nil, inGap |-> FALSE, panic |-> TRUE]
    ELSE IF offset >= gaps[gap].Start /\ offset <= gaps[gap].End
         THEN [gap |-> gap, inGap |-> TRUE, panic |-> FALSE]
    ELSE IF offset < gaps[gap].Start
         THEN [gap |-> gap, inGap |-> FALSE, panic |-> FALSE]
    ELSE findStartGapFrom(gaps, gap + 1, offset)

findStartGap(gaps, offset) == findStartGapFrom(gaps, 1, offset)

\* ---- findEndGap --------------------------------------------------------------------
\* gap.Prev() of the front element is nil (index 0)
RECURSIVE findEndGap(_, _, _)
findEndGap(gaps, gap, offset) ==
    IF gap > Len(gaps) THEN [gap |-> Nil, inGap |-> FALSE, panic |-> TRUE]
    ELSE IF offset >= gaps[gap].Start /\ offset < gaps[gap].End
         THEN [gap |-> gap, inGap |-> TRUE, panic |-> FALSE]
    ELSE IF offset < gaps[gap].Start
         THEN [gap |-> gap - 1, inGap |-> FALSE, panic |-> FALSE]
    ELSE findEndGap(gaps, gap + 1, offset)

\* ---- deleteConsecutive -------------------------------------------------------------
RECURSIVE deleteConsecutive(_, _, _)
deleteConsecutive(q, pos, fired) ==
    IF pos \notin DOMAIN q THEN [queue |-> q, fired |-> fired]
    ELSE deleteConsecutive(MapDelete(q, pos), pos + Len(q[pos].Data),
                           Fire(fired, q[pos].DoneCb))

\* ---- push ------------------------------------------------------------------------------
\* The result of push: the sorter after it, the callbacks it invoked (in
\* order) and how it returned: "ok" (nil), "dup" (errDuplicateStreamData),
\* "gaps" (too many gaps) or "panic" (nil dereference, index out of range).
Ret(q, g, fired, res) == [queue |-> q, gaps |-> g, fired |-> fired, res |-> res]

\* replaceWalk that replaces only entries shorter than the rest of the
\* frame: an entry as long as the rest, met after a replacement, cuts the frame
RECURSIVE replaceWalkOnlyShorter(_, _, _, _, _)
replaceWalkOnlyShorter(q, pos, end, hasReplacedAtLeastOne, fired) ==
    IF pos \notin DOMAIN q
    THEN [queue |-> q, pos |-> pos, hasReplaced |-> hasReplacedAtLeastOne,
          fired |-> fired, exit |-> "break"]
    ELSE LET oldEntry == q[pos]
             oldEntryLen == Len(oldEntry.Data)
         IN  IF end - pos > oldEntryLen
             THEN replaceWalkOnlyShorter(MapDelete(q, pos), pos + oldEntryLen, end,
                                         TRUE, Fire(fired, oldEntry.DoneCb))
             ELSE IF ~hasReplacedAtLeastOne
             THEN [queue |-> q, pos |-> pos, hasReplaced |-> hasReplacedAtLeastOne,
                   fired |-> fired, exit |-> "dup"]
             ELSE [queue |-> q, pos |-> pos, hasReplaced |-> hasReplacedAtLeastOne,
                   fired |-> fired, exit |-> "cut"]

\* replaceWalk with the check of hasReplacedAtLeastOne forgotten: a longer
\* entry met after a replacement makes the push a duplicate
RECURSIVE replaceWalkNoCut(_, _, _, _, _)
replaceWalkNoCut(q, pos, end, hasReplacedAtLeastOne, fired) ==
    IF pos \notin DOMAIN q
    THEN [queue |-> q, pos |-> pos, hasReplaced |-> hasReplacedAtLeastOne,
          fired |-> fired, exit |-> "break"]
    ELSE LET oldEntry == q[pos]
             oldEntryLen == Len(oldEntry.Data)
         IN  IF end - pos > oldEntryLen
                \/ (hasReplacedAtLeastOne /\ end - pos = oldEntryLen)
             THEN replaceWalkNoCut(MapDelete(q, pos), pos + oldEntryLen, end, TRUE,
                                   Fire(fired, oldEntry.DoneCb))
             ELSE [queue |-> q, pos |-> pos, hasReplaced |-> hasReplacedAtLeastOne,
                   fired |-> fired, exit |-> "dup"]

\* lines 97-123: the walk over the queued entries keyed at pos
RECURSIVE replaceWalk(_, _, _, _, _)
replaceWalk(q, pos, end, hasReplacedAtLeastOne, fired) ==
    IF pos \notin DOMAIN q
    THEN [queue |-> q, pos |-> pos, hasReplaced |-> hasReplacedAtLeastOne,
          fired |-> fired, exit |-> "break"]
    ELSE LET oldEntry == q[pos]
             oldEntryLen == Len(oldEntry.Data)
         IN  IF end - pos > oldEntryLen
                \/ (hasReplacedAtLeastOne /\ end - pos = oldEntryLen)
             THEN replaceWalk(MapDelete(q, pos), pos + oldEntryLen, end, TRUE,
                              Fire(fired, oldEntry.DoneCb))
             ELSE IF ~hasReplacedAtLeastOne
             THEN [queue |-> q, pos |-> pos, hasReplaced |-> hasReplacedAtLeastOne,
                   fired |-> fired, exit |-> "dup"]
             ELSE [queue |-> q, pos |-> pos, hasReplaced |-> hasReplacedAtLeastOne,
                   fired |-> fired, exit |-> "cut"]

\* lines 145-150: the gaps between startGap and endGap and the entries after
\* each of them
RECURSIVE consumeGaps(_, _, _, _, _, _)
consumeGaps(q, vals, gap, endGapStart, rm, fired) ==
    IF gap = Nil \/ gap > Len(vals)
    THEN [queue |-> q, rm |-> rm, fired |-> fired, panic |-> TRUE]
    ELSE IF vals[gap].End < endGapStart
    THEN LET d == deleteConsecutive(q, vals[gap].End, fired)
         IN  consumeGaps(d.queue, vals, gap + 1, endGapStart, rm \cup {gap}, d.fired)
    ELSE [queue |-> q, rm |-> rm, fired |-> fired, panic |-> FALSE]

\* updateStartGap that removes every gap the frame starts at or before
updateStartGapAlwaysRemove(g, start, end, hasReplacedAtLeastOne) ==
    IF start <= g.Start
    THEN [val |-> g, remove |-> TRUE, adjustedStartGapEnd |-> FALSE]
    ELSE IF ~hasReplacedAtLeastOne
    THEN [val |-> [g EXCEPT !.End = start], remove |-> FALSE,
          adjustedStartGapEnd |-> TRUE]
    ELSE [val |-> g, remove |-> FALSE, adjustedStartGapEnd |-> FALSE]

\* lines 131-141: the frame against its start gap g: the gap as it is
\* afterwards, whether it is removed from the list, and adjustedStartGapEnd
updateStartGap(g, start, end, hasReplacedAtLeastOne) ==
    IF start <= g.Start
    THEN IF end >= g.End
         THEN [val |-> g, remove |-> TRUE, adjustedStartGapEnd |-> FALSE]
         ELSE [val |-> [g EXCEPT !.Start = end], remove |-> FALSE,
               adjustedStartGapEnd |-> FALSE]
    ELSE IF ~hasReplacedAtLeastOne
    THEN [val |-> [g EXCEPT !.End = start], remove |-> FALSE,
          adjustedStartGapEnd |-> TRUE]
    ELSE [val |-> g, remove |-> FALSE, adjustedStartGapEnd |-> FALSE]

\* ---- push, lines 88-188 ----------------------------------------------------------
\* The local variables of push form a record l; each block of the body is an
\* operator from l to l. l.vals are the values of the elements of the list
\* as it was when push started, l.rm the elements removed, l.ins the element
\* inserted; l.res is "run" until the body returns or panics.

\* lines 88-96: the locals before the loop
pushLocals(s, data, offset, doneCb, startGap, startsInGap, endGap, endsInGap) ==
    [queue |-> s.queue, vals |-> s.gaps, rm |-> {}, ins |-> NoInsert,
     fired |-> << >>, res |-> "run",
     data |-> data, start |-> offset, end |-> offset + Len(data), doneCb |-> doneCb,
     startGap |-> startGap, startsInGap |-> startsInGap,
     endGap |-> endGap, endsInGap |-> endsInGap,
     startGapEqualsEndGap |-> (startGap = endGap),
     startGapNext |-> IF startGap < Len(s.gaps) THEN startGap + 1 ELSE Nil,
     startGapStart |-> s.gaps[startGap].Start,
     startGapEnd |-> s.gaps[startGap].End,
     endGapStart |-> s.gaps[endGap].Start,
     endGapEnd |-> s.gaps[endGap].End,
     adjustedStartGapEnd |-> FALSE, wasCut |-> FALSE,
     hasReplacedAtLeastOne |-> FALSE]

\* lines 95-123: the loop over the entries queued at pos
pushReplace(l) ==
    LET w == replaceWalk(l.queue, l.start, l.end, FALSE, << >>)
        walked == [l EXCEPT !.queue = w.queue, !.fired = w.fired,
                            !.hasReplacedAtLeastOne = w.hasReplaced]
    IN  IF w.exit = "dup" THEN [walked EXCEPT !.res = "dup"]
        ELSE IF w.exit = "break" THEN walked
        ELSE IF w.pos - l.start < 0 \/ w.pos - l.start > Len(l.data)
        THEN [walked EXCEPT !.res = "panic"]
        ELSE [walked EXCEPT !.data = SliceTo(l.data, w.pos - l.start),
                            !.end = w.pos, !.wasCut = TRUE]

\* lines 125-130: cut the frame such that it starts at the start of the gap
pushCutFront(l) ==
    IF l.res # "run" \/ l.startsInGap \/ l.hasReplacedAtLeastOne THEN l
    ELSE IF l.startGapStart - l.start < 0 \/ l.startGapStart - l.start > Len(l.data)
    THEN [l EXCEPT !.res = "panic"]
    ELSE [l EXCEPT !.data = SliceFrom(l.data, l.startGapStart - l.start),
                   !.start = l.startGapStart, !.wasCut = TRUE]

\* lines 131-141: the start gap is removed, or starts or ends at the frame
pushStartGap(l) ==
    IF l.res # "run" THEN l
    ELSE LET u == updateStartGap(l.vals[l.startGap], l.start, l.end,
                                 l.hasReplacedAtLeastOne)
         IN  [l EXCEPT !.vals[l.startGap] = u.val,
                       !.rm = IF u.remove THEN {l.startGap} ELSE {},
                       !.adjustedStartGapEnd = u.adjustedStartGapEnd]

\* lines 143-151: the entries and the gaps between the start and the end gap
pushBetween(l) ==
    IF l.res # "run" \/ l.startGapEqualsEndGap THEN l
    ELSE LET d == deleteConsecutive(l.queue, l.startGapEnd, l.fired)
             c == consumeGaps(d.queue, l.vals, l.startGapNext, l.endGapStart,
                              l.rm, d.fired)
         IN  [l EXCEPT !.queue = c.queue, !.rm = c.rm, !.fired = c.fired,
                       !.res = IF c.panic THEN "panic" ELSE "run"]

\* pushCutEnd that moves the end of the frame and keeps all its bytes
pushCutEndKeepData(l) ==
    IF l.res # "run" \/ l.endsInGap \/ l.start = l.endGapEnd \/ l.end <= l.endGapEnd
    THEN l
    ELSE [l EXCEPT !.end = l.endGapEnd, !.wasCut = TRUE]

\* lines 153-158: cut the frame such that it ends at the end of the gap
pushCutEnd(l) ==
    IF l.res # "run" \/ l.endsInGap \/ l.start = l.endGapEnd \/ l.end <= l.endGapEnd
    THEN l
    ELSE IF l.endGapEnd - l.start < 0 \/ l.endGapEnd - l.start > Len(l.data)
    THEN [l EXCEPT !.res = "panic"]
    ELSE [l EXCEPT !.data = SliceTo(l.data, l.endGapEnd - l.start),
                   !.end = l.endGapEnd, !.wasCut = TRUE]

\* pushEndGap that forgets the gap behind a frame in the middle of a gap
pushEndGapNoSplit(l) ==
    IF l.res # "run" THEN l
    ELSE IF l.end = l.endGapEnd
    THEN IF ~l.startGapEqualsEndGap THEN [l EXCEPT !.rm = @ \cup {l.endGap}] ELSE l
    ELSE IF ~l.startGapEqualsEndGap
    THEN [l EXCEPT !.vals[l.endGap].Start = l.end]
    ELSE l

\* lines 159-171: the end gap is removed or starts at the frame's end, or
\* the frame split the start gap into two
pushEndGap(l) ==
    IF l.res # "run" THEN l
    ELSE IF l.end = l.endGapEnd
    THEN IF ~l.startGapEqualsEndGap THEN [l EXCEPT !.rm = @ \cup {l.endGap}] ELSE l
    ELSE IF l.startGapEqualsEndGap /\ l.adjustedStartGapEnd
    THEN [l EXCEPT !.ins = [after |-> l.startGap,
                            val |-> byteInterval(l.end, l.startGapEnd)]]
    ELSE IF ~l.startGapEqualsEndGap
    THEN [l EXCEPT !.vals[l.endGap].Start = l.end]
    ELSE l

\* pushShrink that calls the callback and stores it with the copy
pushShrinkKeepCb(l) ==
    IF l.res = "run" /\ l.wasCut /\ Len(l.data) < MinStreamFrameBufferSize
    THEN [l EXCEPT !.fired = Fire(l.fired, l.doneCb)]
    ELSE l

\* lines 173-181: a short cut frame is copied and its callback called
pushShrink(l) ==
    IF l.res = "run" /\ l.wasCut /\ Len(l.data) < MinStreamFrameBufferSize
    THEN [l EXCEPT !.fired = Fire(l.fired, l.doneCb), !.doneCb = Nil]
    ELSE l

\* lines 183-188: the gap count is checked and the frame stored
pushStore(l) ==
    LET g == ListOf(l.vals, l.rm, l.ins)
    IN  IF l.res # "run" THEN Ret(l.queue, g, l.fired, l.res)
        ELSE IF Len(g) > MaxStreamFrameSorterGaps THEN Ret(l.queue, g, l.fired, "gaps")
        ELSE Ret(MapStore(l.queue, l.start, frameSorterEntry(l.data, l.doneCb)),
                 g, l.fired, "ok")

\* lines 88-188: push from the point where the start and the end gap are known
pushBody(s, data, offset, doneCb, startGap, startsInGap, endGap, endsInGap) ==
    pushStore(pushShrink(pushEndGap(pushCutEnd(pushBetween(pushStartGap(
        pushCutFront(pushReplace(
            pushLocals(s, data, offset, doneCb, startGap, startsInGap,
                       endGap, endsInGap)))))))))

\* lines 61-189
push(s, data, offset, doneCb) ==
    IF Len(data) = 0 THEN Ret(s.queue, s.gaps, << >>, "dup")
    ELSE IF s.gaps = << >> THEN Ret(s.queue, s.gaps, << >>, "panic")
    ELSE IF offset + Len(data) <= s.gaps[1].Start THEN Ret(s.queue, s.gaps, << >>, "dup")
    ELSE LET end == offset + Len(data)
             sg == findStartGap(s.gaps, offset)
             eg == findEndGap(s.gaps, sg.gap, end)
         IN  IF sg.panic THEN Ret(s.queue, s.gaps, << >>, "panic")
             ELSE IF eg.panic \/ eg.gap = Nil THEN Ret(s.queue, s.gaps, << >>, "panic")
             ELSE IF (sg.gap = eg.gap /\ end <= s.gaps[sg.gap].Start)
                     \/ (sg.gap # eg.gap
                         /\ s.gaps[sg.gap].End >= s.gaps[eg.gap].Start
                         /\ end <= s.gaps[sg.gap].Start)
             THEN Ret(s.queue, s.gaps, << >>, "dup")
             ELSE pushBody(s, data, offset, doneCb, sg.gap, sg.inGap, eg.gap, eg.inGap)

\* ---- Push ------------------------------------------------------------------------------
\* errDuplicateStreamData becomes nil ("ok") after the callback was invoked;
\* dup tells that it did.
Push(s, data, offset, doneCb) ==
    LET r == push(s, data, offset, doneCb)
    IN  IF r.res = "dup"
        THEN [queue |-> r.queue, gaps |-> r.gaps, fired |-> Fire(r.fired, doneCb),
              res |-> "ok", dup |-> TRUE]
        ELSE [queue |-> r.queue, gaps |-> r.gaps, fired |-> r.fired,
              res |-> r.res, dup |-> FALSE]

\* ---- HasMoreData -------------------------------------------------------------------------
HasMoreData(s) == Cardinality(DOMAIN s.queue) > 0

\* Pop with readPos left where it was
PopNoAdvance(s) ==
    IF s.readPos \notin DOMAIN s.queue
    THEN [queue |-> s.queue, readPos |-> s.readPos, offset |-> s.readPos,
          data |-> << >>, cb |-> Nil, found |-> FALSE, panic |-> FALSE]
    ELSE LET entry == s.queue[s.readPos]
         IN  [queue |-> MapDelete(s.queue, s.readPos), readPos |-> s.readPos,
              offset |-> s.readPos, data |-> entry.Data, cb |-> entry.DoneCb,
              found |-> TRUE,
              panic |-> (s.gaps = << >> \/ s.gaps[1].End <= s.readPos)]

\* ---- Pop ---------------------------------------------------------------------------------
\* found = FALSE is the return (s.readPos, nil, nil)
Pop(s) ==
    IF s.readPos \notin DOMAIN s.queue
    THEN [queue |-> s.queue, readPos |-> s.readPos, offset |-> s.readPos,
          data |-> << >>, cb |-> Nil, found |-> FALSE, panic |-> FALSE]
    ELSE LET entry == s.queue[s.readPos]
             readPos1 == s.readPos + Len(entry.Data)
         IN  [queue |-> MapDelete(s.queue, s.readPos), readPos |-> readPos1,
              offset |-> s.readPos, data |-> entry.Data, cb |-> entry.DoneCb,
              found |-> TRUE,
              panic |-> (s.gaps = << >> \/ s.gaps[1].End <= readPos1)]

\* ---- baseFlowController (base_flow_controller.go) ----------------------------
\* A controller c is the record of the fields of baseFlowController that the
\* methods below read or write.  A time.Time is the number of clock ticks
\* since the start, a time.Duration a number of ticks.  The values stay far
\* below 2^63, so the int64 arithmetic of protocol.ByteCount never wraps.
\* allowWindowIncrease is NoGate (the nil func) or Gate; what a Gate returns
\* for a call is an input of the call.
NoGate == "nil"

Gate == "func"

\* lines 57-63
sendWindowSize(c) ==
    IF c.bytesSent > c.sendWindow THEN 0 ELSE c.sendWindow - c.bytesSent

\* IsNewlyBlocked that forgets to record the offset it reported
IsNewlyBlockedNoRecord(c) ==
    IF sendWindowSize(c) # 0 \/ c.sendWindow = c.lastBlockedAt
    THEN [c |-> c, blocked |-> FALSE, offset |-> 0]
    ELSE [c |-> c, blocked |-> TRUE, offset |-> c.sendWindow]

\* lines 38-44
IsNewlyBlocked(c) ==
    IF sendWindowSize(c) # 0 \/ c.sendWindow = c.lastBlockedAt
    THEN [c |-> c, blocked |-> FALSE, offset |-> 0]
    ELSE [c |-> [c EXCEPT !.lastBlockedAt = c.sendWindow],
          blocked |-> TRUE, offset |-> c.sendWindow]

\* lines 46-48
AddBytesSent(c, n) == [c EXCEPT !.bytesSent = @ + n]

\* lines 51-55
UpdateSendWindow(c, offset) ==
    IF offset > c.sendWindow THEN [c EXCEPT !.sendWindow = offset] ELSE c

\* lines 127-130
startNewAutoTuningEpoch(c, now) ==
    [c EXCEPT !.epochStartTime = now, !.epochStartOffset = c.bytesRead]

\* lines 66-73; now is what time.Now() returns
addBytesRead(c, n, now) ==
    LET c1 == IF c.bytesRead = 0 THEN startNewAutoTuningEpoch(c, now) ELSE c
    IN  [c1 EXCEPT !.bytesRead = @ + n]

\* protocol.ByteCount(float64(size) * (1 - protocol.WindowUpdateThreshold)),
\* line 81, with protocol.WindowUpdateThreshold = 0.25: the product rounded
\* towards zero
WindowUpdateLimit(size) == (3 * size) \div 4

\* hasWindowUpdate with the threshold taken as the whole window
hasWindowUpdateWholeWindow(c) ==
    c.receiveWindow - c.bytesRead <= c.receiveWindowSize

\* lines 75-82
hasWindowUpdate(c) ==
    c.receiveWindow - c.bytesRead <= WindowUpdateLimit(c.receiveWindowSize)

\* time.Duration(4 * fraction * float64(rtt)), line 117, with fraction =
\* float64(bytesReadInEpoch) / float64(c.receiveWindowSize): rounded towards
\* zero
TuningPeriod(bytesReadInEpoch, size, rtt) == (4 * bytesReadInEpoch * rtt) \div size

\* maybeAdjustWindowSize without the cap of maxReceiveWindowSize
maybeAdjustWindowSizeNoCap(c, rtt, now, allow) ==
    LET bytesReadInEpoch == c.bytesRead - c.epochStartOffset
        newSize == 2 * c.receiveWindowSize
    IN  IF bytesReadInEpoch <= c.receiveWindowSize \div 2 THEN c
        ELSE IF rtt = 0 THEN c
        ELSE startNewAutoTuningEpoch(
                 IF /\ now - c.epochStartTime
                         < TuningPeriod(bytesReadInEpoch, c.receiveWindowSize, rtt)
                    /\ newSize > c.receiveWindowSize
                    /\ (c.allowWindowIncrease = NoGate \/ allow)
                 THEN [c EXCEPT !.receiveWindowSize = newSize]
                 ELSE c,
                 now)

\* lines 101-125; rtt is what c.rttStats.SmoothedRTT() returns, now what
\* time.Now() returns and allow what c.allowWindowIncrease returns if called
maybeAdjustWindowSize(c, rtt, now, allow) ==
    LET bytesReadInEpoch == c.bytesRead - c.epochStartOffset
        doubled == 2 * c.receiveWindowSize
        newSize == IF doubled < c.maxReceiveWindowSize
                   THEN doubled ELSE c.maxReceiveWindowSize
    IN  IF bytesReadInEpoch <= c.receiveWindowSize \div 2 THEN c
        ELSE IF rtt = 0 THEN c
        ELSE startNewAutoTuningEpoch(
                 IF /\ now - c.epochStartTime
                         < TuningPeriod(bytesReadInEpoch, c.receiveWindowSize, rtt)
                    /\ newSize > c.receiveWindowSize
                    /\ (c.allowWindowIncrease = NoGate \/ allow)
                 THEN [c EXCEPT !.receiveWindowSize = newSize]
                 ELSE c,
                 now)

\* the receive window moved to bytesRead + receiveWindowSize, lines 95-96
advanceWindow(c) ==
    [c |-> [c EXCEPT !.receiveWindow = c.bytesRead + c.receiveWindowSize],
     offset |-> c.bytesRead + c.receiveWindowSize]

\* getWindowUpdate without the check of hasWindowUpdate
getWindowUpdateAlways(c, rtt, now, allow) ==
    advanceWindow(maybeAdjustWindowSize(c, rtt, now, allow))

\* lines 86-97
getWindowUpdate(c, rtt, now, allow) ==
    IF ~hasWindowUpdate(c) THEN [c |-> c, offset |-> 0]
    ELSE advanceWindow(maybeAdjustWindowSize(c, rtt, now, allow))

\* a controller as the stream and the connection flow controller construct
\* it: nothing sent or read, the receive window one window size wide
newBaseFlowController(sendWindow, receiveWindow, maxReceiveWindowSize, allowWindowIncrease) ==
    [bytesSent |-> 0, sendWindow |-> sendWindow, lastBlockedAt |-> 0,
     bytesRead |-> 0, receiveWindow |-> receiveWindow,
     receiveWindowSize |-> receiveWindow,
     maxReceiveWindowSize |-> maxReceiveWindowSize,
     allowWindowIncrease |-> allowWindowIncrease,
     epochStartTime |-> 0, epochStartOffset |-> 0]

\* ---- newFrameSorter ------------------------------------------------------------------------
newFrameSorter ==
    [queue |-> << >>, readPos |-> 0, gaps |-> << byteInterval(0, MaxByteCount) >>]

\* ---- the state -----------------------------------------------------------------------------
VARIABLES
    queue,      \* frameSorter.queue: start offset -> frameSorterEntry
    readPos,    \* frameSorter.readPos
    gaps,       \* frameSorter.gaps, front first
    panicked,   \* the goroutine panicked inside the sorter
    nPush,      \* number of Push calls made
    passed,     \* the non-nil callbacks passed to Push
    calls,      \* calls[cb]: how often the sorter invoked cb
    handed,     \* handed[cb]: how often Pop returned cb to its caller
    covered,    \* the offsets carried by the non-empty segments pushed
    popped,     \* the concatenation of the data returned by Pop
    errored,    \* some Push returned an error
    lastOp,     \* the last call, its arguments and what it returned
    c,          \* the baseFlowController
    clock,      \* what time.Now() returns
    flowLog     \* the last call on c and what the calls so far returned

sorterVars == << queue, readPos, gaps, panicked, nPush, passed, calls, handed,
                 covered, popped, errored, lastOp >>

flowVars == << c, clock, flowLog >>

vars == << sorterVars, flowVars >>

sorter == [queue |-> queue, readPos |-> readPos, gaps |-> gaps]

CallbackIds == 1..(IF MaxPushes > MaxBytePushes THEN MaxPushes ELSE MaxBytePushes)

\* calls after the sorter invoked the callbacks of fired, one after the other
RECURSIVE Invoke(_, _)
Invoke(cnt, fired) ==
    IF fired = << >> THEN cnt
    ELSE Invoke([cnt EXCEPT ![Head(fired)] = @ + 1], Tail(fired))

NoOp == [kind |-> "new", offset |-> 0, len |-> 0, cb |-> Nil, res |-> "ok",
         dup |-> FALSE, data |-> << >>, fired |-> << >>, repeat |-> FALSE]

\* what the last call on c was and returned (offset, blocked), what its gate
\* would return (allow), the values of sendWindow that IsNewlyBlocked reported
\* and the last two offsets other than 0 that getWindowUpdate returned
NoFlowLog == [kind |-> "new", offset |-> 0, blocked |-> FALSE, allow |-> TRUE,
              reported |-> {}, lastOffset |-> 0, prevOffset |-> 0]

\* the sorter after newFrameSorter()
SorterInit ==
    /\ queue = newFrameSorter.queue
    /\ readPos = newFrameSorter.readPos
    /\ gaps = newFrameSorter.gaps
    /\ panicked = FALSE
    /\ nPush = 0
    /\ passed = {}
    /\ calls = [cb \in CallbackIds |-> 0]
    /\ handed = [cb \in CallbackIds |-> 0]
    /\ covered = {}
    /\ popped = << >>
    /\ errored = FALSE
    /\ lastOp = NoOp

Init ==
    /\ SorterInit
    /\ c = newBaseFlowController(0, 1, 1, NoGate)
    /\ clock = 0
    /\ flowLog = NoFlowLog

\* a call s.Push(data, offset, doneCb) with the bytes [offset, offset+len) of
\* the stream and doneCb either nil or a callback of its own; the empty
\* payload is pushed at offset 0 only (push returns before it reads offset)
DoPush(offset, len, doneCb) ==
    /\ ~panicked
    /\ LET r == Push(sorter, StreamData(offset, len), offset, doneCb)
       IN  /\ queue' = r.queue
           /\ gaps' = r.gaps
           /\ readPos' = readPos
           /\ panicked' = (r.res = "panic")
           /\ nPush' = nPush + 1
           /\ passed' = IF doneCb # Nil THEN passed \cup {doneCb} ELSE passed
           /\ calls' = Invoke(calls, r.fired)
           /\ handed' = handed
           /\ covered' = covered \cup (offset .. offset + len - 1)
           /\ popped' = popped
           /\ errored' = (errored \/ r.res # "ok")
           /\ lastOp' = [kind |-> "push", offset |-> offset, len |-> len,
                         cb |-> doneCb, res |-> r.res, dup |-> r.dup,
                         data |-> << >>, fired |-> r.fired,
                         repeat |-> (lastOp.kind = "push" /\ lastOp.offset = offset
                                     /\ lastOp.len = len)]
    /\ UNCHANGED flowVars

PushCall ==
    /\ nPush < MaxPushes
    /\ \E offset \in 0..(StreamLen - 1) :
           \E len \in (IF offset = 0 THEN 0 ELSE 1)..(StreamLen - offset) :
               \E doneCb \in {Nil, nPush + 1} :
                   /\ doneCb = Nil => nPush < MaxNilCallbacks
                   /\ DoPush(offset, len, doneCb)

\* a call s.Push(data, offset, doneCb) with one byte of the stream and a
\* callback of its own
BytePushCall ==
    /\ nPush < MaxBytePushes
    /\ \E offset \in 0..(StreamLen - 1) : DoPush(offset, 1, nPush + 1)

\* a call s.Pop()
PopCall ==
    /\ ~panicked
    /\ LET r == Pop(sorter)
       IN  /\ queue' = r.queue
           /\ readPos' = r.readPos
           /\ gaps' = gaps
           /\ panicked' = r.panic
           /\ handed' = IF r.cb # Nil THEN [handed EXCEPT ![r.cb] = @ + 1] ELSE handed
           /\ popped' = popped \o r.data
           /\ lastOp' = [kind |-> "pop", offset |-> r.offset, len |-> Len(r.data),
                         cb |-> r.cb,
                         res |-> IF r.panic THEN "panic"
                                 ELSE IF r.found THEN "data" ELSE "none",
                         dup |-> FALSE, data |-> r.data, fired |-> << >>,
                         repeat |-> FALSE]
           /\ UNCHANGED << nPush, passed, calls, covered, errored >>
    /\ UNCHANGED flowVars

Next == PushCall \/ PopCall

Spec == Init /\ [][Next]_vars

\* the sorter fed one byte at a time, for more calls than Spec allows
NextBytes == BytePushCall \/ PopCall

SpecBytes == Init /\ [][NextBytes]_vars

\* ---- the calls on the flow controller -------------------------------------------------
\* the send side: AddBytesSent, UpdateSendWindow and IsNewlyBlocked
AddBytesSentCall ==
    \E n \in 0..2 :
        /\ c.bytesSent + n <= MaxBytesSent
        /\ c' = AddBytesSent(c, n)
        /\ flowLog' = [flowLog EXCEPT !.kind = "AddBytesSent", !.offset = 0,
                                      !.blocked = FALSE]
        /\ UNCHANGED << clock, sorterVars >>

UpdateSendWindowCall ==
    \E offset \in 0..MaxBytesSent :
        /\ c' = UpdateSendWindow(c, offset)
        /\ flowLog' = [flowLog EXCEPT !.kind = "UpdateSendWindow", !.offset = 0,
                                      !.blocked = FALSE]
        /\ UNCHANGED << clock, sorterVars >>

IsNewlyBlockedCall ==
    LET r == IsNewlyBlocked(c)
    IN  /\ c' = r.c
        /\ flowLog' = [flowLog EXCEPT
                           !.kind = "IsNewlyBlocked", !.offset = r.offset,
                           !.blocked = r.blocked,
                           !.reported = IF r.blocked THEN @ \cup {c.sendWindow} ELSE @]
        /\ UNCHANGED << clock, sorterVars >>

NextSend == AddBytesSentCall \/ UpdateSendWindowCall \/ IsNewlyBlockedCall

InitSend ==
    /\ SorterInit
    /\ \E sendWindow \in 0..1 : c = newBaseFlowController(sendWindow, 1, 1, NoGate)
    /\ clock = 0
    /\ flowLog = NoFlowLog

SpecSend == InitSend /\ [][NextSend]_vars

\* the receive side: addBytesRead and getWindowUpdate, each under c.mutex,
\* while time passes
Tick ==
    /\ clock < MaxClock
    /\ clock' = clock + 1
    /\ flowLog' = [flowLog EXCEPT !.kind = "Tick", !.offset = 0, !.blocked = FALSE]
    /\ UNCHANGED << c, sorterVars >>

AddBytesReadCall ==
    \E n \in 0..2 :
        /\ c.bytesRead + n <= MaxBytesRead
        /\ c' = addBytesRead(c, n, clock)
        /\ flowLog' = [flowLog EXCEPT !.kind = "addBytesRead", !.offset = 0,
                                      !.blocked = FALSE]
        /\ UNCHANGED << clock, sorterVars >>

GetWindowUpdateCall ==
    \E rtt \in 0..MaxRTT : \E allow \in BOOLEAN :
        LET r == getWindowUpdate(c, rtt, clock, allow)
        IN  /\ c' = r.c
            /\ flowLog' = [flowLog EXCEPT
                               !.kind = "getWindowUpdate", !.offset = r.offset,
                               !.blocked = FALSE, !.allow = allow,
                               !.lastOffset = IF r.offset # 0 THEN r.offset ELSE @,
                               !.prevOffset = IF r.offset # 0 THEN flowLog.lastOffset
                                              ELSE @]
            /\ UNCHANGED << clock, sorterVars >>

NextReceive == Tick \/ AddBytesReadCall \/ GetWindowUpdateCall

InitReceive ==
    /\ SorterInit
    /\ \E size \in 1..MaxInitialWindow : \E max \in size..(2 * MaxInitialWindow) :
           \E gate \in {NoGate, Gate} :
               c = newBaseFlowController(0, size, max, gate)
    /\ clock = 0
    /\ flowLog = NoFlowLog

SpecReceive == InitReceive /\ [][NextReceive]_vars

\* ---- derived notions ---------------------------------------------------------------------
\* the offsets of the interval [a, b)
Range(a, b) == {k \in 0..MaxByteCount : a <= k /\ k < b}

EntryRange(q, k) == Range(k, k + Len(q[k].Data))

GapRange(g) == Range(g.Start, g.End)

\* the payloads of the queue, without the callbacks
QueueData(q) == [k \in DOMAIN q |-> q[k].Data]

\* the number of queued entries that hold the callback cb
Queued(q, cb) == Cardinality({k \in DOMAIN q : q[k].DoneCb = cb})

\* n such that [0, n) is the longest prefix of the stream inside set
RECURSIVE PrefixFrom(_, _)
PrefixFrom(set, n) == IF n \in set THEN PrefixFrom(set, n + 1) ELSE n

CoveredPrefix == PrefixFrom(covered, 0)

\* the sorter never panics (nil element, slice index out of range, the
\* check at the end of Pop)
NoPanic == ~panicked

\* the step is a call of Push
IsPush == lastOp'.kind = "push" /\ nPush' = nPush + 1

\* cb is accounted for once: invoked by the sorter, handed out by Pop, or queued
Accounted(cb) == calls[cb] + handed[cb] + Queued(queue, cb)

\* entries do not overlap each other or a gap, and entries, gaps and the
\* bytes already read make up [0, MaxByteCount)
Tiling ==
    /\ \A k \in DOMAIN queue : \A j \in DOMAIN queue :
           k # j => EntryRange(queue, k) \cap EntryRange(queue, j) = {}
    /\ \A k \in DOMAIN queue : \A i \in 1..Len(gaps) :
           EntryRange(queue, k) \cap GapRange(gaps[i]) = {}
    /\ UNION {EntryRange(queue, k) : k \in DOMAIN queue}
           \cup UNION {GapRange(gaps[i]) : i \in 1..Len(gaps)}
           \cup Range(0, readPos)
       = Range(0, MaxByteCount)

\* ---- C1 ------------------------------------------------------------------------------------
\* C1: when no Push returned an error and Pop has nothing more to return
\* (the next Pop returns none), the data Pop returned so far, concatenated,
\* is the stream [0, n), n the longest prefix covered by the segments
\* pushed: a function of the set of segments, not of their order.
C1_PoppedIsCoveredPrefix ==
    (~errored /\ ~Pop(sorter).found) => popped = StreamData(0, CoveredPrefix)

\* three or more segments pushed, drained by Pop, at least four bytes delivered and
\* more bytes waiting behind a gap
C1_Witness ==
    /\ ~errored /\ lastOp.kind = "pop" /\ lastOp.res = "none"
    /\ nPush >= 3 /\ Len(popped) >= 4 /\ queue # << >>

\* ---- C2 ------------------------------------------------------------------------------------
\* C2: a Pop that returns data returns non-empty data at the offset readPos
\* had before the call, which is the number of bytes returned by the Pops
\* before it (0 for the first, then the previous offset plus the previous
\* length), and advances readPos by the length; a Pop that finds no entry at
\* readPos returns none and changes neither readPos, the queue nor the gaps.
C2_PopInOrder ==
    [][lastOp'.kind = "pop" /\ lastOp' # lastOp =>
          /\ lastOp'.res = "data" =>
                /\ lastOp'.len > 0
                /\ lastOp'.offset = readPos
                /\ lastOp'.offset = Len(popped)
                /\ lastOp'.data = StreamData(readPos, lastOp'.len)
                /\ readPos' = readPos + lastOp'.len
          /\ readPos \notin DOMAIN queue =>
                /\ lastOp'.res = "none"
                /\ readPos' = readPos /\ queue' = queue /\ gaps' = gaps]_vars

\* a second Pop returned data
C2_Witness == lastOp.kind = "pop" /\ lastOp.res = "data" /\ lastOp.offset > 0

\* ---- C3 ------------------------------------------------------------------------------------
\* C3: every non-nil callback passed to Push, whatever that Push returned,
\* is invoked by the sorter or returned by Pop exactly once, or still
\* queued: none is left neither fired nor queued, none is consumed twice.
C3_ExactlyOnce == \A cb \in passed : Accounted(cb) = 1

C5_ErrorLeavesState ==
    [][IsPush /\ lastOp'.res = "gaps" =>
          /\ gaps' = gaps
          /\ readPos' = readPos
          /\ \A k \in DOMAIN queue' : k \in DOMAIN queue /\ queue'[k] = queue[k]]_vars

\* ---- C6 ------------------------------------------------------------------------------------
\* C6: in every reachable state, whatever the Pushes returned, the gap list
\* has at most MaxStreamFrameSorterGaps intervals.
C6_GapCountBounded == Len(gaps) <= MaxStreamFrameSorterGaps

\* ---- C7 ------------------------------------------------------------------------------------
\* C7: as long as no Pop has returned data, the queued entries do not
\* overlap each other or a gap, and entries and gaps together are exactly
\* [0, MaxByteCount).
C7_PushTiles == (readPos = 0 /\ popped = << >>) => Tiling

\* ---- C8 ------------------------------------------------------------------------------------
\* C8: the gap list is well formed in every reachable state: each gap has
\* Start < End, and each gap ends strictly below the start of the next
\* (sorted, disjoint, not adjacent).
C8_GapsWellFormed ==
    /\ \A i \in 1..Len(gaps) : gaps[i].Start < gaps[i].End
    /\ \A i \in 1..(Len(gaps) - 1) : gaps[i].End < gaps[i + 1].Start

\* ---- C9 ------------------------------------------------------------------------------------
\* C9: readPos is at most the first gap's end in every reachable state and
\* strictly below it right after a Pop that returned data; Pop never panics.
C9_ReadPosBelowFirstGap ==
    /\ gaps # << >>
    /\ readPos <= gaps[1].End
    /\ lastOp.kind = "pop" => lastOp.res # "panic"
    /\ (lastOp.kind = "pop" /\ lastOp.res = "data") => readPos < gaps[1].End

\* ---- C10 -----------------------------------------------------------------------------------
\* C10: a Push of the segment that the Push before it carried
\* leaves the queue (keys and payloads), the gap list and readPos unchanged.
C10_SecondPushSameState ==
    [][IsPush /\ lastOp'.repeat =>
          /\ QueueData(queue') = QueueData(queue)
          /\ gaps' = gaps
          /\ readPos' = readPos]_vars

\* ---- C11 -----------------------------------------------------------------------------------
\* C11: when IsNewlyBlocked returns true, the offset it returns is the
\* current sendWindow, and it has not returned true for that value of
\* sendWindow before.
C11_BlockedOncePerWindow ==
    [][(flowLog'.kind = "IsNewlyBlocked" /\ flowLog'.blocked) =>
          /\ flowLog'.offset = c'.sendWindow
          /\ c'.sendWindow = c.sendWindow
          /\ c.sendWindow \notin flowLog.reported]_vars

\* IsNewlyBlocked returned true for a second value of sendWindow
C11_Witness ==
    /\ flowLog.kind = "IsNewlyBlocked" /\ flowLog.blocked
    /\ Cardinality(flowLog.reported) >= 2

C13_WindowSizeCapped ==
    [][/\ c'.receiveWindowSize <= c'.maxReceiveWindowSize
       /\ c'.maxReceiveWindowSize = c.maxReceiveWindowSize
       /\ c'.receiveWindowSize >= c.receiveWindowSize
       /\ c'.receiveWindowSize # c.receiveWindowSize =>
              /\ flowLog'.kind = "getWindowUpdate"
              /\ c'.receiveWindowSize =
                     (IF 2 * c.receiveWindowSize < c.maxReceiveWindowSize
                      THEN 2 * c.receiveWindowSize ELSE c.maxReceiveWindowSize)
       /\ (c.allowWindowIncrease = Gate /\ flowLog'.kind = "getWindowUpdate"
              /\ ~flowLog'.allow) =>
              c'.receiveWindowSize = c.receiveWindowSize]_vars

\* the window size grew, behind a gate, to maxReceiveWindowSize, which is less
\* than twice the size before
C13_Witness ==
    /\ flowLog.kind = "getWindowUpdate" /\ flowLog.allow
    /\ c.allowWindowIncrease = Gate
    /\ c.receiveWindowSize > MaxInitialWindow
    /\ c.receiveWindowSize = c.maxReceiveWindowSize
    /\ c.receiveWindowSize % 2 = 1

\* ---- C17 -----------------------------------------------------------------------------------
\* C17: right after getWindowUpdate returned an offset other than 0,
\* receiveWindow is bytesRead + receiveWindowSize and hasWindowUpdate is
\* false; while hasWindowUpdate is false getWindowUpdate returns 0 and leaves
\* the controller as it is, and only addBytesRead makes hasWindowUpdate true.
C17_QuietAfterUpdate ==
    [][/\ (flowLog'.kind = "getWindowUpdate" /\ flowLog'.offset # 0) =>
              /\ c'.receiveWindow = c'.bytesRead + c'.receiveWindowSize
              /\ flowLog'.offset = c'.receiveWindow
              /\ ~hasWindowUpdate(c')
       /\ (flowLog'.kind = "getWindowUpdate" /\ ~hasWindowUpdate(c)) =>
              /\ flowLog'.offset = 0
              /\ c' = c
       /\ (~hasWindowUpdate(c) /\ hasWindowUpdate(c')) =>
              flowLog'.kind = "addBytesRead"]_vars

\* after an update was returned, getWindowUpdate returned 0
C17_Witness ==
    /\ flowLog.kind = "getWindowUpdate" /\ flowLog.offset = 0
    /\ flowLog.lastOffset # 0
    /\ ~hasWindowUpdate(c)

\* ---- C14 -----------------------------------------------------------------------------------
\* the walk of a push of [start, end) over the queue q, as it ended in w: the
\* entries it deleted are keyed one after the other from start, each shorter
\* than the rest of the frame or, after the first, as long; their callbacks
\* fired once each, in that order; the walk stops where no entry is keyed,
\* as a duplicate at an entry at start that is as long as the frame or
\* longer, or by cutting the frame at an entry longer than the rest of it
WalkAsClaimed(q, start, end, w) ==
    LET removed == (DOMAIN q) \ (DOMAIN w.queue)
        len(k) == Len(q[k].Data)
        withCb == {k \in removed : q[k].DoneCb # Nil}
    IN  /\ w.queue = [k \in (DOMAIN q) \ removed |-> q[k]]
        /\ \A k \in removed :
               /\ k = start \/ \E j \in removed : j + len(j) = k
               /\ len(k) < end - k \/ (len(k) = end - k /\ k # start)
        /\ w.hasReplaced = (removed # {})
        /\ \/ removed = {} /\ w.pos = start
           \/ \E k \in removed : w.pos = k + len(k) /\ \A j \in removed : j <= k
        /\ Len(w.fired) = Cardinality(withCb)
        /\ \A i \in 1..Len(w.fired) :
               \E k \in withCb :
                   /\ w.fired[i] = q[k].DoneCb
                   /\ Cardinality({j \in withCb : j < k}) = i - 1
        /\ IF w.pos \notin DOMAIN q THEN w.exit = "break"
           ELSE IF removed = {} THEN w.exit = "dup" /\ len(w.pos) >= end - w.pos
           ELSE w.exit = "cut" /\ len(w.pos) > end - w.pos

\* C14: in every reachable state, for every segment [start, end) of the
\* stream, the replace walk of push deletes, fires, cuts and recognises a
\* duplicate as claimed.
C14_ReplaceWalk ==
    \A start \in 0..(StreamLen - 1) : \A end \in (start + 1)..StreamLen :
        WalkAsClaimed(queue, start, end, replaceWalk(queue, start, end, FALSE, << >>))

\* the last Push replaced an entry and was then cut at a queued entry that
\* reaches beyond its end
C14_Witness ==
    /\ lastOp.kind = "push" /\ lastOp.res = "ok" /\ ~lastOp.dup
    /\ \E i \in 1..Len(lastOp.fired) : lastOp.fired[i] # lastOp.cb
    /\ lastOp.offset \in DOMAIN queue
    /\ LET p == lastOp.offset + Len(queue[lastOp.offset].Data)
       IN  /\ p < lastOp.offset + lastOp.len
           /\ p \in DOMAIN queue
           /\ p + Len(queue[p].Data) > lastOp.offset + lastOp.len

\* ---- C15 -----------------------------------------------------------------------------------
\* the sum of f over the callbacks of set
RECURSIVE Total(_, _)
Total(f, set) ==
    IF set = {} THEN 0
    ELSE LET cb == CHOOSE x \in set : TRUE
         IN  f[cb] + Total(f, set \ {cb})

\* C15: the callbacks passed to Push, less those the sorter fired, less those
\* Pop handed out, are as many as the entries in the queue.
C15_CallbackCount ==
    Cardinality(passed) - Total(calls, CallbackIds) - Total(handed, CallbackIds)
        = Cardinality(DOMAIN queue)

\* ---- C16 -----------------------------------------------------------------------------------
\* the segment [start, end) lies inside the gap g, away from both its ends
StrictlyInside(start, end, g) == g.Start < start /\ end < g.End

\* the step is a Push of a segment strictly inside gap i that splits the gap
\* in two, stores the whole segment with its callback at its offset and
\* touches nothing else
SplitsGap(i) ==
    LET start == lastOp'.offset
        end == lastOp'.offset + lastOp'.len
    IN  /\ lastOp'.res = "ok" /\ ~lastOp'.dup
        /\ gaps' = SubSeq(gaps, 1, i - 1)
                     \o << byteInterval(gaps[i].Start, start),
                           byteInterval(end, gaps[i].End) >>
                     \o SubSeq(gaps, i + 1, Len(gaps))
        /\ Len(gaps') = Len(gaps) + 1
        /\ queue' = MapStore(queue, start,
                             frameSorterEntry(StreamData(start, lastOp'.len), lastOp'.cb))
        /\ lastOp'.fired = << >>
        /\ calls' = calls
        /\ readPos' = readPos

\* fresh sorter, push(0, 2 bytes), push(5, 2 bytes), push(3, 1 byte)
C16_Example ==
    LET s1 == Push(newFrameSorter, StreamData(0, 2), 0, Nil)
        s2 == Push([newFrameSorter EXCEPT !.queue = s1.queue, !.gaps = s1.gaps],
                   StreamData(5, 2), 5, Nil)
        s3 == Push([newFrameSorter EXCEPT !.queue = s2.queue, !.gaps = s2.gaps],
                   StreamData(3, 1), 3, Nil)
    IN  /\ s2.gaps = << byteInterval(2, 5), byteInterval(7, MaxByteCount) >>
        /\ s3.gaps = << byteInterval(2, 3), byteInterval(4, 5),
                        byteInterval(7, MaxByteCount) >>

\* C16: a Push of a segment strictly inside one gap splits that gap in two,
\* raises the gap count by one, stores the uncut segment at its offset,
\* fires no callback and leaves the other gaps, the other entries and
\* readPos as they were.
C16_SplitsGap ==
    [][(IsPush /\ \E i \in 1..Len(gaps) :
                      StrictlyInside(lastOp'.offset, lastOp'.offset + lastOp'.len, gaps[i]))
          => \E i \in 1..Len(gaps) :
                 /\ StrictlyInside(lastOp'.offset, lastOp'.offset + lastOp'.len, gaps[i])
                 /\ SplitsGap(i)]_vars

\* C16 for a gap list of fewer than MaxStreamFrameSorterGaps gaps, and the
\* example of the claim.
C16_SplitsGapBelowLimit ==
    [][/\ C16_Example
       /\ (IsPush /\ Len(gaps) < MaxStreamFrameSorterGaps
             /\ \E i \in 1..Len(gaps) :
                    StrictlyInside(lastOp'.offset, lastOp'.offset + lastOp'.len, gaps[i]))
          => \E i \in 1..Len(gaps) :
                 /\ StrictlyInside(lastOp'.offset, lastOp'.offset + lastOp'.len, gaps[i])
                 /\ SplitsGap(i)]_vars

\* a Push split the second of two gaps, with entries queued on both sides
C16_Witness ==
    /\ lastOp.kind = "push" /\ lastOp.res = "ok" /\ ~lastOp.dup
    /\ Len(gaps) = 3
    /\ gaps[2].End = lastOp.offset
    /\ gaps[3].Start = lastOp.offset + lastOp.len
    /\ lastOp.offset \in DOMAIN queue
    /\ Len(queue[lastOp.offset].Data) = lastOp.len
    /\ Cardinality(DOMAIN queue) >= 2

\* ---- C18 -----------------------------------------------------------------------------------
\* findStartGap and findEndGap find a gap for every segment below MaxByteCount
GapAlwaysFound ==
    \A start \in 0..(MaxByteCount - 1) : \A end \in start..(MaxByteCount - 1) :
        LET sg == findStartGap(gaps, start)
        IN  /\ ~sg.panic
            /\ ~findEndGap(gaps, sg.gap, end).panic

\* C18: with Pushes that end below MaxByteCount, the gap list is never
\* empty, its last gap ends at MaxByteCount, and findStartGap and
\* findEndGap find a gap for every such segment.
C18_SentinelKept ==
    /\ gaps # << >>
    /\ gaps[Len(gaps)].End = MaxByteCount
    /\ GapAlwaysFound

\* a Push has removed gaps and cut into the last one, which is the only
\* gap left
C18_Witness ==
    /\ lastOp.kind = "push" /\ lastOp.res = "ok" /\ ~lastOp.dup
    /\ Len(gaps) = 1
    /\ gaps[1].Start = lastOp.offset + lastOp.len
    /\ Cardinality(DOMAIN queue) >= 2
    /\ popped # << >>

\* ---- C19 -----------------------------------------------------------------------------------
\* the bytes already read, the queued entries and the gaps are pairwise
\* disjoint and make up [0, MaxByteCount)
Partition ==
    /\ Tiling
    /\ \A i \in 1..Len(gaps) : \A j \in 1..Len(gaps) :
           i # j => GapRange(gaps[i]) \cap GapRange(gaps[j]) = {}
    /\ \A k \in DOMAIN queue : EntryRange(queue, k) \cap Range(0, readPos) = {}
    /\ \A i \in 1..Len(gaps) : GapRange(gaps[i]) \cap Range(0, readPos) = {}

\* C19: while every Push has returned ok, the bytes already read, the
\* queued entries and the gaps partition [0, MaxByteCount); readPos is at
\* most the first gap's start and every queued entry starts at or above
\* readPos.
C19_Partition ==
    ~errored =>
        /\ Partition
        /\ readPos <= gaps[1].Start
        /\ \A k \in DOMAIN queue : k >= readPos

\* every Push returned ok, an entry was cut at its end against a queued
\* entry, bytes were read, and entries and gaps remain
C19_Witness ==
    /\ ~errored
    /\ lastOp.kind = "push" /\ ~lastOp.dup
    /\ lastOp.offset \in DOMAIN queue
    /\ Len(queue[lastOp.offset].Data) < lastOp.len
    /\ readPos > 0
    /\ Cardinality(DOMAIN queue) >= 2
    /\ Len(gaps) >= 2

\* ---- C20 -----------------------------------------------------------------------------------
\* C20: whatever the Pushes returned, every callback is consumed at most
\* once: invoked by the sorter or handed out by Pop, once in all, and a
\* consumed callback is in no queued entry.
C20_ConsumedOnce ==
    \A cb \in CallbackIds :
        /\ calls[cb] + handed[cb] <= 1
        /\ calls[cb] + handed[cb] = 1 => Queued(queue, cb) = 0

\* the shrink-copy step has called the callback of a cut frame, whose entry
\* Pop returned afterwards without a callback, and Pop has handed out
\* another callback
C20_Witness ==
    /\ lastOp.kind = "pop" /\ lastOp.res = "data" /\ lastOp.cb = Nil
    /\ \E cb \in passed : handed[cb] = 1
    /\ \E cb \in passed : calls[cb] = 1
    /\ passed = 1..nPush

====
